---- MODULE Spec2Model ----
(***************************************************************************)
(* Jetson Ollama Control Panel (frontend/src/App.js): the streaming chat   *)
(* and pull decoders, the telemetry poller and the memory admission guard, *)
(* modelled as one state machine over the React state of the App component *)
(* and the asynchronous tasks its handlers start.                          *)
(*                                                                         *)
(* Text is a sequence of tokens.  The tokens "{", "}", "\n" and " " are    *)
(* the characters the code looks at; a key token stands for a quoted key   *)
(* with its colon, a value token for one JSON value.  A React handler sees *)
(* the state of the latest render; every action below is one synchronous   *)
(* run of code between two awaits.                                         *)
(***************************************************************************)
EXTENDS Integers, Sequences, FiniteSets, TLC

\* ------------------------------------------------------------------ bounds

MaxChats == 2          \* chat submissions in one behaviour
MaxPulls == 2          \* pull submissions in one behaviour
MaxStatsInFlight == 2  \* concurrently outstanding /api/system-stats requests
MaxModelsInFlight == 2 \* concurrently outstanding /api/tags requests
MaxSaves == 2          \* chats saved in one behaviour
MaxDeletesInFlight == 1  \* concurrently outstanding /api/delete requests

\* ------------------------------------------------------------------ text

NL == "\n"
SP == " "
LB == "{"
RB == "}"

Keys == {"message.content", "status", "total", "completed", "error", "done"}
Digits == {"0", "1", "2", "3"}
Values == Digits \cup {"", "Hel", "lo", "pulling manifest", "success",
                       "model not found", "true"}
Absent == "<absent>"

NumVal(v) == CASE v = "0" -> 0 [] v = "1" -> 1 [] v = "2" -> 2 [] v = "3" -> 3
               [] OTHER -> 0

\* JavaScript truthiness of a decoded field: undefined, "" and 0 are falsy.
Truthy(v) == v \notin {Absent, "", "0"}

RECURSIVE IndexOfFrom(_, _, _)
IndexOfFrom(s, tok, i) ==
    IF i > Len(s) THEN 0
    ELSE IF s[i] = tok THEN i ELSE IndexOfFrom(s, tok, i + 1)

\* chunk.split('\n'): n newlines give n + 1 pieces, empty pieces included.
RECURSIVE Split(_)
Split(s) ==
    LET i == IndexOfFrom(s, NL, 1)
    IN  IF i = 0 THEN <<s>>
        ELSE <<SubSeq(s, 1, i - 1)>> \o Split(SubSeq(s, i + 1, Len(s)))

RECURSIVE TrimLeft(_)
TrimLeft(s) == IF s # <<>> /\ s[1] = SP THEN TrimLeft(Tail(s)) ELSE s

RECURSIVE TrimRight(_)
TrimRight(s) ==
    IF s # <<>> /\ s[Len(s)] = SP THEN TrimRight(SubSeq(s, 1, Len(s) - 1)) ELSE s

\* String.prototype.trim
Trim(s) == TrimRight(TrimLeft(s))

\* Whether JSON.parse accepts the text: one primitive value, or an object of
\* key/value members.  Whitespace around the value is accepted, anything
\* else throws.
IsJson(s) ==
    LET t == Trim(s)
        n == Len(t)
        IsObject == /\ n >= 2
                    /\ t[1] = LB
                    /\ t[n] = RB
                    /\ n % 2 = 0
                    /\ \A i \in 2..(n - 1) :
                          IF i % 2 = 0 THEN t[i] \in Keys ELSE t[i] \in Values
    IN  (n = 1 /\ t[1] \in Values) \/ IsObject

\* The value JSON.parse gives member k of an accepted text (the last
\* occurrence wins), or Absent.
RECURSIVE FieldFrom(_, _, _)
FieldFrom(t, k, i) ==
    IF i < 2 THEN Absent
    ELSE IF t[i] = k THEN t[i + 1] ELSE FieldFrom(t, k, i - 2)

Field(s, k) == LET t == Trim(s) IN FieldFrom(t, k, Len(t) - 2)

\* JSON.parse of an accepted text: the decoded record.
JsonParse(s) == [k \in Keys |-> Field(s, k)]

\* lines.filter(line => line.trim() !== '')
RECURSIVE NonBlank(_)
NonBlank(ls) ==
    IF ls = <<>> THEN <<>>
    ELSE (IF Trim(Head(ls)) # <<>> THEN <<Head(ls)>> ELSE <<>>) \o NonBlank(Tail(ls))

\* ---------------------------------------------------------- chat decoding

\* The body of lines.forEach in handleChatSubmit for one line: whether the
\* line reaches JSON.parse and is accepted by it.
ChatLineDecodes(line) ==
    LET trimmed == Trim(line)
    IN  /\ trimmed # <<>>
        /\ trimmed[1] = LB
        /\ IsJson(trimmed)

\* parsed.message && parsed.message.content: the fragment the line adds.
ChatLineDelta(line) ==
    IF ChatLineDecodes(line) /\ Truthy(Field(line, "message.content"))
    THEN <<Field(line, "message.content")>>
    ELSE <<>>

RECURSIVE ChatRecords(_)
ChatRecords(ls) ==
    IF ls = <<>> THEN <<>>
    ELSE (IF ChatLineDecodes(Head(ls)) THEN <<JsonParse(Head(ls))>> ELSE <<>>)
            \o ChatRecords(Tail(ls))

RECURSIVE ChatDeltas(_)
ChatDeltas(ls) ==
    IF ls = <<>> THEN <<>> ELSE ChatLineDelta(Head(ls)) \o ChatDeltas(Tail(ls))

\* The lines the chat loop makes of one chunk.
ChatChunkLines(chunk) == Split(chunk)

\* ---------------------------------------------------------- pull decoding

StatusEmpty == [kind |-> "", pct |-> 0, text |-> ""]
StatusPulling(name) == [kind |-> "pulling", pct |-> 0, text |-> name]
StatusPercent(p) == [kind |-> "percent", pct |-> p, text |-> ""]
StatusText(t) == [kind |-> "status", pct |-> 0, text |-> t]
StatusSuccess == [kind |-> "success", pct |-> 0, text |-> ""]
StatusError == [kind |-> "error", pct |-> 0, text |-> ""]

\* Math.round(x / y * 100) for x >= 0, y > 0: halves round up.
RoundPercent(completed, total) == (200 * completed + total) \div (2 * total)

\* if (json.total && json.completed)
PullHasProgress(line) ==
    Truthy(Field(line, "total")) /\ Truthy(Field(line, "completed"))

\* The body of lines.forEach in handlePullModel for one accepted line: the
\* status it publishes, given the status before it.
PullLineStatus(line, status) ==
    IF PullHasProgress(line)
    THEN StatusPercent(RoundPercent(NumVal(Field(line, "completed")),
                                    NumVal(Field(line, "total"))))
    ELSE IF Truthy(Field(line, "status"))
    THEN StatusText(Field(line, "status"))
    ELSE status

\* JSON.parse(line) in handlePullModel stands in no try block of its own.
PullLineThrows(line) == ~IsJson(line)

\* lines.forEach over the non-blank lines of one chunk: the statuses
\* published and the records decoded up to the first line that throws.
RECURSIVE PullRun(_, _, _)
PullRun(ls, status, records) ==
    IF ls = <<>> THEN [status |-> status, records |-> records, threw |-> FALSE]
    ELSE IF PullLineThrows(Head(ls))
    THEN [status |-> status, records |-> records, threw |-> TRUE]
    ELSE PullRun(Tail(ls), PullLineStatus(Head(ls), status),
                 Append(records, JsonParse(Head(ls))))

PullChunkLines(chunk) == NonBlank(Split(chunk))

\* ------------------------------------------------------- the stats server
\*
\* The text of the diagnostic command is a string; Ch(s, i) is its i-th
\* character.

Ch(s, i) == SubSeq(s, i, i)

DecimalDigits == {"0", "1", "2", "3", "4", "5", "6", "7", "8", "9"}

DigitVal(c) ==
    CASE c = "0" -> 0 [] c = "1" -> 1 [] c = "2" -> 2 [] c = "3" -> 3 [] c = "4" -> 4
      [] c = "5" -> 5 [] c = "6" -> 6 [] c = "7" -> 7 [] c = "8" -> 8 [] c = "9" -> 9

\* int(text) of a run of digits.
RECURSIVE IntOf(_)
IntOf(s) ==
    IF Len(s) = 0 THEN 0
    ELSE 10 * IntOf(SubSeq(s, 1, Len(s) - 1)) + DigitVal(Ch(s, Len(s)))

\* Whether the literal lit stands in s at position i.
LitAt(s, i, lit) ==
    /\ i >= 1
    /\ i + Len(lit) - 1 <= Len(s)
    /\ SubSeq(s, i, i + Len(lit) - 1) = lit

\* \d+ at position i: the position after the longest run of digits from i
\* (i itself when there is none).  Every use below is followed by a
\* character that is no digit, so the longest run is the only match.
RECURSIVE DigitsEnd(_, _)
DigitsEnd(s, i) ==
    IF i <= Len(s) /\ Ch(s, i) \in DecimalDigits THEN DigitsEnd(s, i + 1) ELSE i

\* The first position from i at which lit stands, not crossing a newline
\* ('.' matches no newline); 0 when there is none.
RECURSIVE LazyUpTo(_, _, _)
LazyUpTo(s, i, lit) ==
    IF i > Len(s) THEN 0
    ELSE IF LitAt(s, i, lit) THEN i
    ELSE IF Ch(s, i) = "\n" THEN 0
    ELSE LazyUpTo(s, i + 1, lit)

Least(S) == CHOOSE i \in S : \A j \in S : i <= j

\* re.search: the leftmost position at which the pattern matches, 0 for None.
Leftmost(S) == IF S = {} THEN 0 ELSE Least(S)

\* r"RAM (\d+)/(\d+)MB" at position i: the two groups, or <<>>.
RamMatchAt(s, i) ==
    LET a == i + 4
        b == DigitsEnd(s, a)
        c == b + 1
        d == DigitsEnd(s, c)
    IN  IF LitAt(s, i, "RAM ") /\ b > a /\ LitAt(s, b, "/") /\ d > c /\ LitAt(s, d, "MB")
        THEN <<SubSeq(s, a, b - 1), SubSeq(s, c, d - 1)>>
        ELSE <<>>

ram_match(line) ==
    LET i == Leftmost({j \in 1..Len(line) : RamMatchAt(line, j) # <<>>})
    IN  IF i = 0 THEN <<>> ELSE RamMatchAt(line, i)

\* r"CPU \[(.*?)\]" at position i: the group in a one-element tuple, or <<>>.
CpuMatchAt(s, i) ==
    LET a == i + 5
        b == LazyUpTo(s, a, "]")
    IN  IF LitAt(s, i, "CPU [") /\ b # 0 THEN <<SubSeq(s, a, b - 1)>> ELSE <<>>

cpu_match(line) ==
    LET i == Leftmost({j \in 1..Len(line) : CpuMatchAt(line, j) # <<>>})
    IN  IF i = 0 THEN <<>> ELSE CpuMatchAt(line, i)

\* r"(\d+)%@\d+" at position i: the position after the match, 0 for none.
CoreMatchEnd(s, i) ==
    LET b == DigitsEnd(s, i)
        c == b + 2
        d == DigitsEnd(s, c)
    IN  IF b > i /\ LitAt(s, b, "%@") /\ d > c THEN d ELSE 0

\* re.findall(r"(\d+)%@\d+", s): the groups of the matches that do not
\* overlap, from left to right.
RECURSIVE FindCores(_, _)
FindCores(s, i) ==
    IF i > Len(s) THEN <<>>
    ELSE LET e == CoreMatchEnd(s, i)
         IN  IF e = 0 THEN FindCores(s, i + 1)
             ELSE <<SubSeq(s, i, DigitsEnd(s, i) - 1)>> \o FindCores(s, e)

cpu_cores(group) == FindCores(group, 1)

\* r"GR3D_FREQ (\d+)%@\d+" at position i: the group in a tuple, or <<>>.
GpuMatchAt(s, i) ==
    LET a == i + 10
    IN  IF LitAt(s, i, "GR3D_FREQ ") /\ CoreMatchEnd(s, a) # 0
        THEN <<SubSeq(s, a, DigitsEnd(s, a) - 1)>>
        ELSE <<>>

gpu_match(line) ==
    LET i == Leftmost({j \in 1..Len(line) : GpuMatchAt(line, j) # <<>>})
    IN  IF i = 0 THEN <<>> ELSE GpuMatchAt(line, i)

\* r"SOC_TEMP (\d+\.\d+)C" at position i: the whole and the fraction digits
\* of the group, or <<>>.
TempMatchAt(s, i) ==
    LET a == i + 9
        b == DigitsEnd(s, a)
        c == b + 1
        d == DigitsEnd(s, c)
    IN  IF LitAt(s, i, "SOC_TEMP ") /\ b > a /\ LitAt(s, b, ".") /\ d > c /\ LitAt(s, d, "C")
        THEN <<SubSeq(s, a, b - 1), SubSeq(s, c, d - 1)>>
        ELSE <<>>

temp_match(line) ==
    LET i == Leftmost({j \in 1..Len(line) : TempMatchAt(line, j) # <<>>})
    IN  IF i = 0 THEN <<>> ELSE TempMatchAt(line, i)

\* round(num / den, 2) in hundredths, for num >= 0 and den > 0: the nearest
\* hundredth, a tie going to the even one.
Round2(num, den) ==
    LET q == (100 * num) \div den
        r == (100 * num) % den
    IN  IF 2 * r > den THEN q + 1
        ELSE IF 2 * r < den THEN q
        ELSE IF q % 2 = 0 THEN q ELSE q + 1

\* MbToGb dividing by 1000.
MbToGbDecimal(mb) == Round2(mb, 1000)

\* round(int(...) / 1024, 2), in hundredths of a gigabyte.
MbToGb(mb) == Round2(mb, 1024)

RECURSIVE SumOf(_)
SumOf(ps) == IF ps = <<>> THEN 0 ELSE IntOf(Head(ps)) + SumOf(Tail(ps))

\* CpuAverage over six cores, whatever the number found.
CpuAverageOfSix(cores) == Round2(SumOf(cores), 6)

\* round(total_percent / len(cpu_cores), 2), in hundredths of a percent.
CpuAverage(cores) == Round2(SumOf(cores), Len(cores))

\* float(text) of whole.frac in thousandths; tegrastats prints at most three
\* decimals.
FloatOf(whole, frac) ==
    LET n == Len(frac)
        f == IntOf(SubSeq(frac, 1, IF n > 3 THEN 3 ELSE n))
    IN  1000 * IntOf(whole)
          + (IF n = 1 THEN 100 * f ELSE IF n = 2 THEN 10 * f ELSE f)

RamKeys == {"ram_used_mb", "ram_total_mb", "ram_used_gb", "ram_total_gb"}

\* The dictionary parse_tegrastats returns: a function of the keys it set.
parse_tegrastats(line) ==
    LET ram == ram_match(line)
        cpu == cpu_match(line)
        cores == IF cpu = <<>> THEN <<>> ELSE cpu_cores(cpu[1])
        gpu == gpu_match(line)
        temp == temp_match(line)
        keys == (IF ram # <<>> THEN RamKeys ELSE {})
                  \cup (IF cores # <<>> THEN {"cpu_usage_percent"} ELSE {})
                  \cup (IF gpu # <<>> THEN {"gpu_usage_percent"} ELSE {})
                  \cup (IF temp # <<>> THEN {"soc_temp_c"} ELSE {})
    IN  [k \in keys |->
            CASE k = "ram_used_mb" -> IntOf(ram[1])
              [] k = "ram_total_mb" -> IntOf(ram[2])
              [] k = "ram_used_gb" -> MbToGb(IntOf(ram[1]))
              [] k = "ram_total_gb" -> MbToGb(IntOf(ram[2]))
              [] k = "cpu_usage_percent" -> CpuAverage(cores)
              [] k = "gpu_usage_percent" -> IntOf(gpu[1])
              [] k = "soc_temp_c" -> FloatOf(temp[1], temp[2])]

\* str.strip(): blanks and newlines off both ends.
RECURSIVE StripLeft(_)
StripLeft(s) ==
    IF Len(s) > 0 /\ Ch(s, 1) \in {" ", "\n"} THEN StripLeft(SubSeq(s, 2, Len(s))) ELSE s

RECURSIVE StripRight(_)
StripRight(s) ==
    IF Len(s) > 0 /\ Ch(s, Len(s)) \in {" ", "\n"}
    THEN StripRight(SubSeq(s, 1, Len(s) - 1)) ELSE s

Strip(s) == StripRight(StripLeft(s))

ErrorParse == "Failed to parse tegrastats output"
ErrorNotFound == "'tegrastats' command not found. Are you running this on a Jetson device?"
ErrorRunning == "Error running tegrastats"
ErrorUnexpected == "An unexpected error occurred"

NoSample == [k \in {} |-> 0]
ErrorResponse(text) == [code |-> 500, error |-> text, sample |-> NoSample]
SampleResponse(stats) == [code |-> 200, error |-> "", sample |-> stats]

\* EmptyStats taking every dictionary for a reading.
NeverEmpty(stats) == FALSE

\* not parsed_stats
EmptyStats(stats) == DOMAIN stats = {}

\* The answer of get_system_stats to what subprocess.run did: it raised
\* FileNotFoundError, CalledProcessError (check=True and a non-zero exit) or
\* another OSError, or it completed with the text stdout.
Respond(cmd) ==
    CASE cmd.kind = "FileNotFoundError" -> ErrorResponse(ErrorNotFound)
      [] cmd.kind = "CalledProcessError" -> ErrorResponse(ErrorRunning)
      [] cmd.kind = "PermissionError" -> ErrorResponse(ErrorUnexpected)
      [] cmd.kind = "completed" ->
            LET output_line == Strip(cmd.stdout)
                parsed_stats == parse_tegrastats(output_line)
            IN  IF EmptyStats(parsed_stats) THEN ErrorResponse(ErrorParse)
                ELSE SampleResponse(parsed_stats)

\* ---- what tegrastats measured, and the line it prints for it

Off == -1   \* a core that is switched off prints "off"

RamReadings == {<<1683, 7762>>, <<128, 8192>>, <<3700, 7762>>}
CoreReadings ==
    {<<11, 8, 9>>, <<>>, <<Off, Off>>, <<7, Off>>, <<1, 2>>, <<11, 8, 9, 10, 8, 9>>}

CoreText(p) == IF p = Off THEN "off" ELSE ToString(p) \o "%@1113"

RECURSIVE CoresText(_)
CoresText(ps) ==
    IF ps = <<>> THEN ""
    ELSE IF Len(ps) = 1 THEN CoreText(ps[1])
    ELSE CoreText(ps[1]) \o "," \o CoresText(Tail(ps))

\* Each part of a line with the reading it prints: mb is <<used, total>>,
\* cores the per-core percentages, pct the GPU load, temp the temperature in
\* thousandths; <<>> where the part holds no reading.
RamParts ==
    {[text |-> "", mb |-> <<>>], [text |-> "RAM 1683/MB ", mb |-> <<>>]}
      \cup {[text |-> "RAM " \o ToString(r[1]) \o "/" \o ToString(r[2]) \o "MB (lfb 2x4MB) ",
             mb |-> r] : r \in RamReadings}
CpuParts ==
    {[text |-> "", listed |-> FALSE, cores |-> <<>>]}
      \cup {[text |-> "CPU [" \o CoresText(c) \o "] ", listed |-> TRUE, cores |-> c] :
               c \in CoreReadings}
GpuParts ==
    {[text |-> "", pct |-> <<>>], [text |-> "GR3D_FREQ 0% ", pct |-> <<>>],
     [text |-> "GR3D_FREQ 15%@114 ", pct |-> <<15>>]}
TempParts ==
    {[text |-> "", temp |-> <<>>], [text |-> "SOC_TEMP 35C", temp |-> <<>>],
     [text |-> "SOC_TEMP 35.5C", temp |-> <<35500>>]}

Readings == [ram : RamParts, cpu : CpuParts, gpu : GpuParts, temp : TempParts]
NoReading ==
    [ram |-> [text |-> "", mb |-> <<>>],
     cpu |-> [text |-> "", listed |-> FALSE, cores |-> <<>>],
     gpu |-> [text |-> "", pct |-> <<>>],
     temp |-> [text |-> "", temp |-> <<>>]]

\* The line tegrastats prints for a reading.
TegrastatsLine(g) ==
    g.ram.text \o "SWAP 0/3881MB (cached 0MB) " \o g.cpu.text \o "EMC_FREQ 0% "
      \o g.gpu.text \o g.temp.text \o "\n"

\* What subprocess.run can do.
Failures == {"FileNotFoundError", "CalledProcessError", "PermissionError"}
BlankOutputs == {"", "\n"}

ServerIdle ==
    [given |-> NoReading, cmd |-> [kind |-> "none", stdout |-> ""],
     response |-> [code |-> 0, error |-> "", sample |-> NoSample]]

\* ------------------------------------------------------------------ state

VARIABLES
    \* React state of App
    systemStats, statsError, models, selectedModel, selectedModelInfo,
    chatHistory, prompt, isStreaming, pullModelName, pullStatus,
    \* the task started by handleChatSubmit
    chatPc,            \* "idle", "fetch" (awaiting fetch) or "read" (awaiting reader.read)
    chatRest,          \* the part of the response body not yet delivered
    assistantContent,  \* the local of that name
    \* the task started by handlePullModel
    pullPc, pullRest,
    pullTimers,        \* pending setTimeout(() => setPullStatus(''), 3000)
    \* outstanding requests of fetchStats and fetchModels, counted by the value
    \* their closure holds (statsError set or not; selectedModel)
    statsPending, modelsPending,
    \* the model server's catalog
    serverModels,
    \* what the tasks have done, for the properties
    chatLog, pullLog,
    \* the saved chats: the React state, the localStorage item savedChats_v1
    \* and Date.now()
    savedChats, storage, now,
    \* what saving has done, for the properties
    savedLog,
    \* outstanding DELETE requests of handleDeleteModel, counted by the model
    \* named and the selectedModel of the handler's closure
    deletePending,
    \* the stats server: the command run for the latest request, what it
    \* measured and the answer
    statsServer

statsVars == <<systemStats, statsError, statsPending>>
modelVars ==
    <<models, selectedModel, selectedModelInfo, modelsPending, serverModels, deletePending>>
chatVars == <<chatHistory, prompt, chatPc, chatRest, assistantContent, chatLog>>
pullVars == <<pullModelName, pullStatus, pullPc, pullRest, pullTimers, pullLog>>
savedVars == <<savedChats, storage, now, savedLog>>
serverVars == <<statsServer>>
vars == <<statsVars, modelVars, chatVars, pullVars, isStreaming, savedVars, serverVars>>

\* ------------------------------------------------------------ the inputs

\* Model descriptors of /api/tags; sizes in units of 10^7 bytes.
ModelNames == {"gemma:2b", "llama3:8b"}
ModelSize(name) == IF name = "gemma:2b" THEN 390 ELSE 400
Descriptor(name) == [name |-> name, size |-> ModelSize(name)]
NoModelInfo == [name |-> "", size |-> 0]

\* data.models of a catalog, in the server's order.
ModelList(catalog) ==
    (IF "gemma:2b" \in catalog THEN <<Descriptor("gemma:2b")>> ELSE <<>>)
        \o (IF "llama3:8b" \in catalog THEN <<Descriptor("llama3:8b")>> ELSE <<>>)

\* Telemetry samples of /api/system-stats; the gigabyte fields in hundredths,
\* as the server rounds them.  ram tells whether the RAM fields are present.
NoStats == [published |-> FALSE, ram |-> FALSE, ram_used_gb |-> 0, ram_total_gb |-> 0]
Sample(used, total) ==
    [published |-> TRUE, ram |-> TRUE, ram_used_gb |-> used, ram_total_gb |-> total]
SampleWithoutRam ==
    [published |-> TRUE, ram |-> FALSE, ram_used_gb |-> 0, ram_total_gb |-> 0]
Samples == {Sample(200, 800), Sample(100, 800), SampleWithoutRam}

NoError == ""
StatsErrorText == "Could not connect to stats helper. Is it running?"

Prompts == {"hi"}
PullNames == {"gemma:2b", ""}

Line(members) == <<LB>> \o members \o <<RB>>
Body(lines) ==
    IF lines = <<>> THEN <<>>
    ELSE Line(lines[1]) \o <<NL>>
         \o (IF Len(lines) > 1 THEN Line(lines[2]) \o <<NL>> ELSE <<>>)
         \o (IF Len(lines) > 2 THEN Line(lines[3]) \o <<NL>> ELSE <<>>)

\* Bodies of /api/chat answers with a 2xx status: NDJSON; the third holds a
\* line cut short by the server between two whole ones, the fourth a blank
\* line and a record with an empty fragment.
ChatBodies ==
    { Body(<< <<"message.content", "Hel">>, <<"message.content", "lo">>,
              <<"done", "true">> >>),
      Body(<< <<"message.content", "Hel">> >>),
      Line(<<"message.content", "Hel">>) \o <<NL, LB, "message.content", NL>>
          \o Line(<<"message.content", "lo">>) \o <<NL>>,
      <<SP>> \o Line(<<"message.content", "">>) \o <<NL, NL>>
          \o Line(<<"message.content", "lo">>) }

\* The body of an answer with a non-2xx status.
ErrorBody == Line(<<"error", "model not found">>) \o <<NL>>

ChatResponses ==
    [ok : {TRUE}, body : ChatBodies] \cup [ok : {FALSE}, body : {ErrorBody}]

\* Bodies of /api/pull answers with a 2xx status.
PullBodies ==
    { Body(<< <<"status", "pulling manifest">>, <<"total", "3", "completed", "1">>,
              <<"status", "success">> >>),
      Body(<< <<"status", "pulling manifest", "total", "3", "completed", "0">>,
              <<"total", "3", "completed", "2">> >>),
      Line(<<"total", "3", "completed", "1">>) \o <<NL, LB, "status", NL>>
          \o Line(<<"total", "3", "completed", "3">>) \o <<NL>>,
      Line(<<"total", "3", "completed", "0">>) \o <<NL, SP, NL>>
          \o Line(<<"total", "2", "completed", "1">>) }

PullResponses ==
    [ok : {TRUE}, body : PullBodies] \cup [ok : {FALSE}, body : {ErrorBody}]

UserMessage(text) == [role |-> "user", content |-> <<text>>]
AssistantMessage(content) == [role |-> "assistant", content |-> content]
ChatErrorMessage == AssistantMessage(<<"Sorry, I encountered an error.">>)

\* ------------------------------------------------------ the saved chats
\*
\* The localStorage item is JSON text: a sequence of tokens, one for each
\* bracket, comma, member name and value.  No text of the application holds
\* a character that JSON.stringify escapes.

\* The JavaScript string of a content: its fragments joined.
RECURSIVE Concat(_)
Concat(content) == IF content = <<>> THEN "" ELSE Head(content) \o Concat(Tail(content))

\* The content of a JavaScript string.
FromString(text) == IF text = "" THEN <<>> ELSE <<text>>

Quote(text) == "\"" \o text \o "\""
Unquote(token) == SubSeq(token, 2, Len(token) - 1)

MessageText(m) ==
    <<"{", "\"role\":", Quote(m.role), ",", "\"content\":", Quote(Concat(m.content)), "}">>

RECURSIVE MessagesText(_)
MessagesText(h) ==
    IF h = <<>> THEN <<>>
    ELSE MessageText(Head(h)) \o (IF Len(h) > 1 THEN <<",">> ELSE <<>>)
           \o MessagesText(Tail(h))

EntryText(e) ==
    <<"{", "\"id\":", Quote(e.id), ",", "\"title\":", Quote(e.title), ",",
      "\"history\":", "[">> \o MessagesText(e.history)
      \o <<"]", ",", "\"model\":", Quote(e.model), ",", "\"created\":",
           ToString(e.created), "}">>

RECURSIVE EntriesText(_)
EntriesText(chats) ==
    IF chats = <<>> THEN <<>>
    ELSE EntryText(Head(chats)) \o (IF Len(chats) > 1 THEN <<",">> ELSE <<>>)
           \o EntriesText(Tail(chats))

\* JSON.stringify(savedChats)
Stringify(chats) == <<"[">> \o EntriesText(chats) \o <<"]">>

\* JSON.parse of the elements of an array of messages from token i (the
\* first element or the closing bracket): the messages and the position
\* after the closing bracket.
RECURSIVE ParseMessages(_, _)
ParseMessages(t, i) ==
    IF t[i] = "]" THEN [value |-> <<>>, next |-> i + 1]
    ELSE LET j == IF t[i] = "," THEN i + 1 ELSE i
             m == [role |-> Unquote(t[j + 2]),
                   content |-> FromString(Unquote(t[j + 5]))]
             rest == ParseMessages(t, j + 7)
         IN  [value |-> <<m>> \o rest.value, next |-> rest.next]

\* Likewise for the elements of the array of saved chats.
RECURSIVE ParseEntries(_, _)
ParseEntries(t, i) ==
    IF t[i] = "]" THEN [value |-> <<>>, next |-> i + 1]
    ELSE LET j == IF t[i] = "," THEN i + 1 ELSE i
             h == ParseMessages(t, j + 9)
             e == [id |-> Unquote(t[j + 2]),
                   title |-> Unquote(t[j + 5]),
                   history |-> h.value,
                   model |-> Unquote(t[h.next + 2]),
                   created |-> IntOf(t[h.next + 5])]
             rest == ParseEntries(t, h.next + 7)
         IN  [value |-> <<e>> \o rest.value, next |-> rest.next]

\* localStorage.getItem gave null.
NoItem == <<>>

\* const saved = localStorage.getItem('savedChats_v1');
\* if (saved) { try { setSavedChats(JSON.parse(saved)); } catch (_) {} }
LoadSavedChats(saved) == IF saved = NoItem THEN <<>> ELSE ParseEntries(saved, 2).value

\* models.find(m => m.name === name) || null
FindModel(list, name) ==
    LET S == {i \in 1..Len(list) : list[i].name = name}
    IN  IF S = {} THEN NoModelInfo ELSE list[Least(S)]

\* The newest saved chat, whatever the id.
FindFirstChat(chats, id) == chats[1]

\* savedChats.find(c => c.id === id), for an id of the list.
FindChat(chats, id) == chats[Least({i \in 1..Len(chats) : chats[i].id = id})]

\* prev.filter(c => c.id !== id)
WithoutChat(chats, id) == SelectSeq(chats, LAMBDA c : c.id # id)

Titles == {" notes"}

SavedLogInit ==
    [taken |-> [id \in {} |-> 0],  \* by id: the history and the model when it was saved
     declined |-> FALSE]          \* changes whenever window.confirm is answered with Cancel

\* ------------------------------------------------------------------ init

ChatLogInit ==
    [requests |-> 0,        \* /api/chat requests sent
     inflight |-> 0,        \* chat tasks started and not finished
     whole |-> <<>>,        \* the body of the latest answer
     ok |-> TRUE,           \* whether its status was 2xx
     decoded |-> <<>>,      \* the records the loop decoded from it
     aligned |-> TRUE,      \* every chunk so far ended at the end of a line
     chunks |-> 0,          \* the reads of it that returned a chunk
     emitted |-> <<>>,      \* the contents its streaming updates were given
     outcome |-> "none"]    \* "running", "ended" (done) or "failed" (catch)

PullLogInit ==
    [requests |-> 0, inflight |-> 0, whole |-> <<>>, ok |-> TRUE, decoded |-> <<>>,
     aligned |-> TRUE,
     outcome |-> "none",    \* "running", "ended", "failed" or "threw" (JSON.parse)
     name |-> "",           \* pullModelName of the handler's closure
     sel |-> ""]            \* selectedModel of the handler's closure

\* The state after the first render and its effects: fetchModels() and
\* fetchStats() are outstanding and the interval is set.
Init ==
    /\ systemStats = NoStats
    /\ statsError = NoError
    /\ statsPending = [k \in BOOLEAN |-> IF k THEN 0 ELSE 1]
    /\ models = <<>>
    /\ selectedModel = ""
    /\ selectedModelInfo = NoModelInfo
    /\ modelsPending = [m \in ModelNames \cup {""} |-> IF m = "" THEN 1 ELSE 0]
    /\ serverModels = ModelNames
    /\ chatHistory = <<>>
    /\ prompt = ""
    /\ isStreaming = FALSE
    /\ pullModelName = "gemma:2b"
    /\ pullStatus = StatusEmpty
    /\ chatPc = "idle"
    /\ chatRest = <<>>
    /\ assistantContent = <<>>
    /\ pullPc = "idle"
    /\ pullRest = <<>>
    /\ pullTimers = 0
    /\ chatLog = ChatLogInit
    /\ pullLog = PullLogInit
    /\ savedChats = <<>>
    /\ storage = Stringify(savedChats)
    /\ savedLog = SavedLogInit
    /\ now = 1
    /\ deletePending = [d \in ModelNames \X (ModelNames \cup {""}) |-> 0]
    /\ statsServer = ServerIdle

\* --------------------------------------------------------- rendering

\* EnoughFree with the comparison not strict.
EnoughFreeOrEqual(freeGb, size) == 2 * freeGb >= 3 * size

\* The comparison of hasSufficientMemory: freeGb > modelGb * 1.5, with
\* freeGb in hundredths of a gigabyte and size in units of 10^7 bytes.
EnoughFree(freeGb, size) == 2 * freeGb > 3 * size

\* Helper: whether we have enough free RAM to load / run the model.
Admit(stats, info) ==
    IF ~stats.published \/ info = NoModelInfo THEN TRUE
    ELSE LET freeGb == (IF stats.ram THEN stats.ram_total_gb ELSE 0)
                       - (IF stats.ram THEN stats.ram_used_gb ELSE 0)
         IN  EnoughFree(freeGb, info.size)

hasSufficientMemory == Admit(systemStats, selectedModelInfo)

memOk == hasSufficientMemory

\* The chat button without the memory guard, the pull button never disabled.
ChatButtonIgnoringMemory == ~(prompt = "" \/ isStreaming \/ selectedModel = "")
PullButtonAlwaysEnabled == TRUE

\* The chat form's submit button and text input, and the pull form's button.
ChatButtonEnabled == ~(prompt = "" \/ isStreaming \/ selectedModel = "" \/ ~memOk)
ChatInputEnabled == ~(selectedModel = "" \/ isStreaming \/ ~memOk)
PullButtonEnabled == ~isStreaming

TotalStats(sp) == sp[TRUE] + sp[FALSE]
TotalModels(mp) == mp[""] + mp["gemma:2b"] + mp["llama3:8b"]

\* useEffect(..., [fetchModels, fetchStats]): fetchStats is a new function
\* when statsError changed, fetchModels when selectedModel changed; the
\* effect then calls both again.  sp and mp are the outstanding requests
\* the step leaves before its render.
StatsEffect(sp, mp) ==
    LET runs == selectedModel' # selectedModel \/ statsError' # statsError
    IN  /\ statsPending' =
              IF runs THEN [sp EXCEPT ![statsError' # NoError] = @ + 1] ELSE sp
        /\ modelsPending' =
              IF runs THEN [mp EXCEPT ![selectedModel'] = @ + 1] ELSE mp
        /\ TotalStats(statsPending') <= MaxStatsInFlight
        /\ TotalModels(modelsPending') <= MaxModelsInFlight

\* --------------------------------------------------------- telemetry

\* setInterval(fetchStats, 500): the callback runs whatever is outstanding.
StatsTick ==
    /\ TotalStats(statsPending) < MaxStatsInFlight
    /\ statsPending' = [statsPending EXCEPT ![statsError # NoError] = @ + 1]
    /\ UNCHANGED <<systemStats, statsError, modelVars, chatVars, pullVars, isStreaming>>
    /\ UNCHANGED <<savedVars, serverVars>>

\* fetchStats after its awaits, response.ok: k is the closure's statsError.
StatsResolved(k, sample) ==
    /\ statsPending[k] > 0
    /\ systemStats' = sample
    /\ statsError' = IF k THEN NoError ELSE statsError
    /\ UNCHANGED <<models, selectedModel, selectedModelInfo, serverModels>>
    /\ StatsEffect([statsPending EXCEPT ![k] = @ - 1], modelsPending)
    /\ UNCHANGED <<chatVars, pullVars, isStreaming>>
    /\ UNCHANGED <<deletePending, savedVars, serverVars>>

\* fetchStats, the catch block: fetch rejected or the status was not 2xx.
StatsFailed(k) ==
    /\ statsPending[k] > 0
    /\ statsError' = StatsErrorText
    /\ UNCHANGED <<systemStats, models, selectedModel, selectedModelInfo, serverModels>>
    /\ StatsEffect([statsPending EXCEPT ![k] = @ - 1], modelsPending)
    /\ UNCHANGED <<chatVars, pullVars, isStreaming>>
    /\ UNCHANGED <<deletePending, savedVars, serverVars>>

\* ------------------------------------------------------------- models

\* fetchModels after its awaits: sel is the closure's selectedModel.
ModelsResolved(sel) ==
    /\ modelsPending[sel] > 0
    /\ models' = ModelList(serverModels)
    /\ IF sel = "" /\ Len(models') > 0
       THEN /\ selectedModel' = models'[1].name
            /\ selectedModelInfo' = models'[1]
       ELSE UNCHANGED <<selectedModel, selectedModelInfo>>
    /\ UNCHANGED <<systemStats, statsError, serverModels>>
    /\ StatsEffect(statsPending, [modelsPending EXCEPT ![sel] = @ - 1])
    /\ UNCHANGED <<chatVars, pullVars, isStreaming>>
    /\ UNCHANGED <<deletePending, savedVars, serverVars>>

\* fetchModels, the catch block.
ModelsFailed(sel) ==
    /\ modelsPending[sel] > 0
    /\ modelsPending' = [modelsPending EXCEPT ![sel] = @ - 1]
    /\ UNCHANGED <<statsVars, models, selectedModel, selectedModelInfo, serverModels,
                   chatVars, pullVars, isStreaming>>
    /\ UNCHANGED <<deletePending, savedVars, serverVars>>

\* onClick of an entry of the model list.
SelectModel(i) ==
    /\ i \in 1..Len(models)
    /\ selectedModel' = models[i].name
    /\ selectedModelInfo' = models[i]
    /\ UNCHANGED <<systemStats, statsError, models, serverModels>>
    /\ StatsEffect(statsPending, modelsPending)
    /\ UNCHANGED <<chatVars, pullVars, isStreaming>>
    /\ UNCHANGED <<deletePending, savedVars, serverVars>>

\* onChange of the quick model select above the chat box.
QuickSelectModel(i) ==
    /\ ~(isStreaming \/ Len(models) = 0)
    /\ SelectModel(i)

\* --------------------------------------------------------------- chat

\* onChange of the chat input.
SetPrompt(text) ==
    /\ ChatInputEnabled
    /\ prompt' = text
    /\ UNCHANGED <<statsVars, modelVars, chatHistory, chatPc, chatRest,
                   assistantContent, chatLog, pullVars, isStreaming>>
    /\ UNCHANGED <<savedVars, serverVars>>

\* The early return without the test of the model's descriptor.
ChatSubmitIgnoringInfo == prompt = "" \/ isStreaming \/ selectedModel = ""

\* if (!prompt || isStreaming || !selectedModel || !selectedModelInfo) return;
ChatSubmitReturns ==
    prompt = "" \/ isStreaming \/ selectedModel = "" \/ selectedModelInfo = NoModelInfo

\* handleChatSubmit up to its first await, run by the form's submit event.
handleChatSubmit ==
    /\ ChatButtonEnabled
    /\ ~ChatSubmitReturns
    /\ chatLog.requests < MaxChats
    /\ chatHistory' = Append(chatHistory, UserMessage(prompt))
    /\ prompt' = ""
    /\ isStreaming' = TRUE
    /\ chatPc' = "fetch"
    /\ chatLog' = [ChatLogInit EXCEPT !.requests = chatLog.requests + 1,
                                      !.inflight = chatLog.inflight + 1,
                                      !.outcome = "running"]
    /\ UNCHANGED <<statsVars, modelVars, chatRest, assistantContent, pullVars>>
    /\ UNCHANGED <<savedVars, serverVars>>

\* fetch resolved: the reader is taken and the empty assistant message added.
ChatFetchResolved(resp) ==
    /\ chatPc = "fetch"
    /\ assistantContent' = <<>>
    /\ chatHistory' = Append(chatHistory, AssistantMessage(<<>>))
    /\ chatRest' = resp.body
    /\ chatPc' = "read"
    /\ chatLog' = [chatLog EXCEPT !.whole = resp.body, !.ok = resp.ok]
    /\ UNCHANGED <<statsVars, modelVars, prompt, pullVars, isStreaming>>
    /\ UNCHANGED <<savedVars, serverVars>>

\* ChatCatch putting the error message in the place of the trailing message.
ChatCatchReplacing ==
    /\ chatHistory' = [chatHistory EXCEPT ![Len(chatHistory)] = ChatErrorMessage]
    /\ isStreaming' = FALSE
    /\ chatPc' = "idle"
    /\ chatLog' = [chatLog EXCEPT !.outcome = "failed", !.inflight = @ - 1]
    /\ UNCHANGED <<statsVars, modelVars, prompt, chatRest, assistantContent, pullVars>>
    /\ UNCHANGED <<savedVars, serverVars>>

\* The catch and finally blocks of handleChatSubmit.
ChatCatch ==
    /\ chatHistory' = Append(chatHistory, ChatErrorMessage)
    /\ isStreaming' = FALSE
    /\ chatPc' = "idle"
    /\ chatLog' = [chatLog EXCEPT !.outcome = "failed", !.inflight = @ - 1]
    /\ UNCHANGED <<statsVars, modelVars, prompt, chatRest, assistantContent, pullVars>>
    /\ UNCHANGED <<savedVars, serverVars>>

\* fetch rejected.
ChatFetchRejected ==
    /\ chatPc = "fetch"
    /\ ChatCatch

\* An update after every fragment of the chunk.
ChatRecordEmits(content, deltas) ==
    [i \in 1..Len(deltas) |-> content \o SubSeq(deltas, 1, i)]

\* if (hasDelta) setChatHistory(...): the contents one turn of the loop
\* hands to setChatHistory, content being assistantContent before the turn.
ChatChunkEmits(content, deltas) ==
    IF deltas # <<>> THEN <<content \o deltas>> ELSE <<>>

\* setChatHistory(prevHistory => ...) of the streaming update.
ChatUpdate(prevHistory, content) ==
    IF prevHistory = <<>> THEN prevHistory
    ELSE [prevHistory EXCEPT ![Len(prevHistory)] = [@ EXCEPT !.content = content]]

\* reader.read() resolved with the next n tokens of the body: one turn of
\* the while loop.
ChatReadChunk(n) ==
    /\ chatPc = "read"
    /\ n \in 1..Len(chatRest)
    /\ LET chunk == SubSeq(chatRest, 1, n)
           lines == ChatChunkLines(chunk)
           deltas == ChatDeltas(lines)
           hasDelta == deltas # <<>>
       IN  /\ assistantContent' = assistantContent \o deltas
           /\ chatHistory' = IF hasDelta
                             THEN ChatUpdate(chatHistory, assistantContent')
                             ELSE chatHistory
           /\ chatLog' = [chatLog EXCEPT
                            !.chunks = @ + 1,
                            !.emitted = @ \o ChatChunkEmits(assistantContent, deltas),
                            !.decoded = @ \o ChatRecords(lines),
                            !.aligned = @ /\ (chunk[n] = NL \/ n = Len(chatRest))]
    /\ chatRest' = SubSeq(chatRest, n + 1, Len(chatRest))
    /\ UNCHANGED <<statsVars, modelVars, prompt, chatPc, pullVars, isStreaming>>
    /\ UNCHANGED <<savedVars, serverVars>>

\* The normal end of the chat stream without the finally block.
ChatReadDoneStillBusy ==
    /\ chatPc = "read"
    /\ chatRest = <<>>
    /\ chatPc' = "idle"
    /\ chatLog' = [chatLog EXCEPT !.outcome = "ended", !.inflight = @ - 1]
    /\ UNCHANGED <<statsVars, modelVars, chatHistory, prompt, chatRest,
                   assistantContent, pullVars, isStreaming>>
    /\ UNCHANGED <<savedVars, serverVars>>

\* reader.read() resolved with done: break, then the finally block.
ChatReadDone ==
    /\ chatPc = "read"
    /\ chatRest = <<>>
    /\ isStreaming' = FALSE
    /\ chatPc' = "idle"
    /\ chatLog' = [chatLog EXCEPT !.outcome = "ended", !.inflight = @ - 1]
    /\ UNCHANGED <<statsVars, modelVars, chatHistory, prompt, chatRest,
                   assistantContent, pullVars>>
    /\ UNCHANGED <<savedVars, serverVars>>

\* reader.read() rejected: the stream was aborted.
ChatReadRejected ==
    /\ chatPc = "read"
    /\ ChatCatch

handleClearChat ==
    /\ ~(isStreaming \/ Len(chatHistory) = 0)
    /\ chatHistory' = <<>>
    /\ UNCHANGED <<statsVars, modelVars, prompt, chatPc, chatRest, assistantContent,
                   chatLog, pullVars, isStreaming>>
    /\ UNCHANGED <<savedVars, serverVars>>

\* --------------------------------------------------------------- pull

\* onChange of the pull form's input.
SetPullModelName(name) ==
    /\ pullModelName' = name
    /\ UNCHANGED <<statsVars, modelVars, chatVars, pullStatus, pullPc, pullRest,
                   pullTimers, pullLog, isStreaming>>
    /\ UNCHANGED <<savedVars, serverVars>>

\* handlePullModel up to its first await, run by the form's submit event.
handlePullModel ==
    /\ PullButtonEnabled
    /\ pullModelName # ""
    /\ pullLog.requests < MaxPulls
    /\ isStreaming' = TRUE
    /\ pullStatus' = StatusPulling(pullModelName)
    /\ pullPc' = "fetch"
    /\ pullLog' = [PullLogInit EXCEPT !.requests = pullLog.requests + 1,
                                      !.inflight = pullLog.inflight + 1,
                                      !.outcome = "running",
                                      !.name = pullModelName,
                                      !.sel = selectedModel]
    /\ UNCHANGED <<statsVars, modelVars, chatVars, pullModelName, pullRest, pullTimers>>
    /\ UNCHANGED <<savedVars, serverVars>>

\* fetch resolved: the reader is taken.  A 2xx answer means the server has
\* the model by the time its stream ends.
PullFetchResolved(resp) ==
    /\ pullPc = "fetch"
    /\ pullRest' = resp.body
    /\ pullPc' = "read"
    /\ pullLog' = [pullLog EXCEPT !.whole = resp.body, !.ok = resp.ok]
    /\ serverModels' = IF resp.ok /\ pullLog.name \in ModelNames
                       THEN serverModels \cup {pullLog.name} ELSE serverModels
    /\ UNCHANGED <<statsVars, models, selectedModel, selectedModelInfo, modelsPending,
                   chatVars, pullModelName, pullStatus, pullTimers, isStreaming>>
    /\ UNCHANGED <<deletePending, savedVars, serverVars>>

\* The catch and finally blocks of handlePullModel.
PullCatch(outcome) ==
    /\ pullStatus' = StatusError
    /\ isStreaming' = FALSE
    /\ pullTimers' = pullTimers + 1
    /\ pullPc' = "idle"
    /\ pullLog' = [pullLog EXCEPT !.outcome = outcome, !.inflight = @ - 1]
    /\ UNCHANGED <<statsVars, modelVars, chatVars, pullModelName, pullRest>>
    /\ UNCHANGED <<savedVars, serverVars>>

\* fetch rejected.
PullFetchRejected ==
    /\ pullPc = "fetch"
    /\ PullCatch("failed")

\* reader.read() resolved with the next n tokens of the body: one turn of
\* the while loop.  A line JSON.parse rejects ends the handler in its catch.
PullReadChunk(n) ==
    /\ pullPc = "read"
    /\ n \in 1..Len(pullRest)
    /\ LET chunk == SubSeq(pullRest, 1, n)
           run == PullRun(PullChunkLines(chunk), pullStatus, <<>>)
       IN  IF run.threw
           THEN /\ pullStatus' = StatusError
                /\ isStreaming' = FALSE
                /\ pullTimers' = pullTimers + 1
                /\ pullPc' = "idle"
                /\ pullLog' = [pullLog EXCEPT
                                 !.outcome = "threw", !.inflight = @ - 1,
                                 !.decoded = @ \o run.records,
                                 !.aligned = @ /\ (chunk[n] = NL \/ n = Len(pullRest))]
                /\ UNCHANGED pullRest
           ELSE /\ pullStatus' = run.status
                /\ pullRest' = SubSeq(pullRest, n + 1, Len(pullRest))
                /\ pullLog' = [pullLog EXCEPT
                                 !.decoded = @ \o run.records,
                                 !.aligned = @ /\ (chunk[n] = NL \/ n = Len(pullRest))]
                /\ UNCHANGED <<pullPc, pullTimers, isStreaming>>
    /\ UNCHANGED <<statsVars, modelVars, chatVars, pullModelName>>
    /\ UNCHANGED <<savedVars, serverVars>>

\* reader.read() resolved with done: the success status, fetchModels() of
\* the handler's closure, then the finally block.
PullReadDone ==
    /\ pullPc = "read"
    /\ pullRest = <<>>
    /\ TotalModels(modelsPending) < MaxModelsInFlight
    /\ pullStatus' = StatusSuccess
    /\ modelsPending' = [modelsPending EXCEPT ![pullLog.sel] = @ + 1]
    /\ isStreaming' = FALSE
    /\ pullTimers' = pullTimers + 1
    /\ pullPc' = "idle"
    /\ pullLog' = [pullLog EXCEPT !.outcome = "ended", !.inflight = @ - 1]
    /\ UNCHANGED <<statsVars, models, selectedModel, selectedModelInfo, serverModels,
                   chatVars, pullModelName, pullRest>>
    /\ UNCHANGED <<deletePending, savedVars, serverVars>>

\* reader.read() rejected: the stream was aborted.
PullReadRejected ==
    /\ pullPc = "read"
    /\ PullCatch("failed")

\* setTimeout(() => setPullStatus(''), 3000) fires.
PullStatusTimeout ==
    /\ pullTimers > 0
    /\ pullTimers' = pullTimers - 1
    /\ pullStatus' = StatusEmpty
    /\ UNCHANGED <<statsVars, modelVars, chatVars, pullModelName, pullPc, pullRest,
                   pullLog, isStreaming>>
    /\ UNCHANGED <<savedVars, serverVars>>

\* -------------------------------------------------------- saved chats

\* The new entry put behind the others.
PutLast(entry, prev) == Append(prev, entry)

\* setSavedChats(prev => [entry, ...prev])
PutFirst(entry, prev) == <<entry>> \o prev

\* title.trim()
TrimTitle(title) == Strip(title)

\* handleSaveCurrentChat with the title window.prompt returned; an empty
\* title or a cancelled prompt returns without a change.
handleSaveCurrentChat(title) ==
    /\ Len(chatHistory) # 0
    /\ title # ""
    /\ now <= MaxSaves
    /\ LET entry == [id |-> ToString(now),
                     title |-> TrimTitle(title),
                     history |-> chatHistory,
                     model |-> selectedModel,
                     created |-> now]
       IN  /\ savedChats' = PutFirst(entry, savedChats)
           /\ savedLog' = [savedLog EXCEPT
                             !.taken = [id \in DOMAIN @ \cup {entry.id} |->
                                          IF id = entry.id
                                          THEN [history |-> chatHistory,
                                                model |-> selectedModel]
                                          ELSE @[id]]]
    /\ storage' = Stringify(savedChats')
    /\ now' = now + 1
    /\ UNCHANGED <<statsVars, modelVars, chatVars, pullVars, isStreaming, serverVars>>

\* onClick of an entry of the saved chats.
handleLoadChat(id) ==
    /\ \E i \in 1..Len(savedChats) : savedChats[i].id = id
    /\ LET entry == FindChat(savedChats, id)
       IN  /\ chatHistory' = entry.history
           /\ IF entry.model # ""
              THEN /\ selectedModel' = entry.model
                   /\ selectedModelInfo' = FindModel(models, entry.model)
              ELSE UNCHANGED <<selectedModel, selectedModelInfo>>
    /\ UNCHANGED <<systemStats, statsError, models, serverModels, deletePending>>
    /\ StatsEffect(statsPending, modelsPending)
    /\ UNCHANGED <<prompt, chatPc, chatRest, assistantContent, chatLog, pullVars,
                   isStreaming, savedVars, serverVars>>

\* The confirmation taken as given whatever the answer.
ConfirmIgnored(answer) == FALSE

\* if (!window.confirm(...)) return;
ConfirmDeclined(answer) == ~answer

\* handleDeleteSavedChat, answer being what window.confirm returned.
handleDeleteSavedChatAnswered(id, answer) ==
    /\ \E i \in 1..Len(savedChats) : savedChats[i].id = id
    /\ IF ConfirmDeclined(answer)
       THEN /\ UNCHANGED <<savedChats, storage>>
            /\ savedLog' = [savedLog EXCEPT !.declined = IF answer THEN @ ELSE ~@]
       ELSE /\ savedChats' = WithoutChat(savedChats, id)
            /\ storage' = Stringify(savedChats')
            /\ savedLog' = [savedLog EXCEPT
                              !.taken = [x \in DOMAIN @ \ {id} |-> @[x]],
                              !.declined = IF answer THEN @ ELSE ~@]
    /\ UNCHANGED <<now, statsVars, modelVars, chatVars, pullVars, isStreaming, serverVars>>

\* handleDeleteSavedChat, the confirmation accepted.
handleDeleteSavedChat(id) == handleDeleteSavedChatAnswered(id, TRUE)

\* The page is loaded again: the state of the first render, then the mount
\* effects, which read the saved chats from the item and write them back.
\* The counts of requests sent are kept for the bounds.
Restart ==
    /\ systemStats' = NoStats
    /\ statsError' = NoError
    /\ statsPending' = [k \in BOOLEAN |-> IF k THEN 0 ELSE 1]
    /\ models' = <<>>
    /\ selectedModel' = ""
    /\ selectedModelInfo' = NoModelInfo
    /\ modelsPending' = [m \in ModelNames \cup {""} |-> IF m = "" THEN 1 ELSE 0]
    /\ deletePending' = [d \in ModelNames \X (ModelNames \cup {""}) |-> 0]
    /\ chatHistory' = <<>>
    /\ prompt' = ""
    /\ isStreaming' = FALSE
    /\ pullModelName' = "gemma:2b"
    /\ pullStatus' = StatusEmpty
    /\ chatPc' = "idle"
    /\ chatRest' = <<>>
    /\ assistantContent' = <<>>
    /\ pullPc' = "idle"
    /\ pullRest' = <<>>
    /\ pullTimers' = 0
    /\ chatLog' = [ChatLogInit EXCEPT !.requests = chatLog.requests]
    /\ pullLog' = [PullLogInit EXCEPT !.requests = pullLog.requests]
    /\ savedChats' = LoadSavedChats(storage)
    /\ storage' = Stringify(savedChats')
    /\ UNCHANGED <<serverModels, now, savedLog, serverVars>>

\* ------------------------------------------------------- model deletion

TotalDeletes(dp) ==
    LET D == ModelNames \X (ModelNames \cup {""})
        RECURSIVE Sum(_)
        Sum(S) == IF S = {} THEN 0
                  ELSE LET d == CHOOSE x \in S : TRUE IN dp[d] + Sum(S \ {d})
    IN  Sum(D)

\* handleDeleteModel up to its await, answer being what window.confirm
\* returned.
handleDeleteModelAnswered(name, answer) ==
    /\ \E i \in 1..Len(models) : models[i].name = name
    /\ savedLog' = [savedLog EXCEPT !.declined = IF answer THEN @ ELSE ~@]
    /\ IF ConfirmDeclined(answer)
       THEN UNCHANGED deletePending
       ELSE /\ TotalDeletes(deletePending) < MaxDeletesInFlight
            /\ deletePending' = [deletePending EXCEPT ![<<name, selectedModel>>] = @ + 1]
    /\ UNCHANGED <<statsVars, models, selectedModel, selectedModelInfo, modelsPending,
                   serverModels, chatVars, pullVars, isStreaming, savedChats, storage, now,
                   serverVars>>

\* handleDeleteModel up to its await, the confirmation accepted.
handleDeleteModel(name) == handleDeleteModelAnswered(name, TRUE)

\* fetch of /api/delete resolved, with a 2xx status (the server deleted the
\* model) or another: sel is the selectedModel of the handler's closure.
DeleteResolved(name, sel, ok) ==
    /\ deletePending[<<name, sel>>] > 0
    /\ deletePending' = [deletePending EXCEPT ![<<name, sel>>] = @ - 1]
    /\ serverModels' = IF ok THEN serverModels \ {name} ELSE serverModels
    /\ IF sel = name
       THEN /\ selectedModel' = ""
            /\ selectedModelInfo' = NoModelInfo
       ELSE UNCHANGED <<selectedModel, selectedModelInfo>>
    /\ UNCHANGED <<systemStats, statsError, models>>
    /\ StatsEffect(statsPending, [modelsPending EXCEPT ![sel] = @ + 1])
    /\ UNCHANGED <<chatVars, pullVars, isStreaming, savedVars, serverVars>>

\* fetch of /api/delete rejected: the alert.
DeleteRejected(name, sel) ==
    /\ deletePending[<<name, sel>>] > 0
    /\ deletePending' = [deletePending EXCEPT ![<<name, sel>>] = @ - 1]
    /\ UNCHANGED <<statsVars, models, selectedModel, selectedModelInfo, modelsPending,
                   serverModels, chatVars, pullVars, isStreaming, savedVars, serverVars>>

\* ------------------------------------------------------- the stats server

\* get_system_stats for one request: cmd is what subprocess.run did, g what
\* tegrastats measured when it ran.
get_system_stats(cmd, g) ==
    /\ statsServer = ServerIdle
    /\ statsServer' = [given |-> g, cmd |-> cmd, response |-> Respond(cmd)]
    /\ UNCHANGED <<statsVars, modelVars, chatVars, pullVars, isStreaming, savedVars>>

\* The answer is sent; the server waits for the next request.
StatsAnswerSent ==
    /\ statsServer # ServerIdle
    /\ statsServer' = ServerIdle
    /\ UNCHANGED <<statsVars, modelVars, chatVars, pullVars, isStreaming, savedVars>>

\* ------------------------------------------------------------- the system
\*
\* The handlers are grouped by what they share.  A stream task reads and
\* writes only chat or pull state and isStreaming; telemetry and the catalog
\* reach it only through the guards of the submit step.  Each specification
\* below composes the groups one property is about, from a state the
\* application reaches.

NextStats ==
    \/ StatsTick
    \/ \E k \in BOOLEAN, sample \in Samples : StatsResolved(k, sample)
    \/ \E k \in BOOLEAN : StatsFailed(k)

NextModels ==
    \/ \E sel \in ModelNames \cup {""} : ModelsResolved(sel)
    \/ \E sel \in ModelNames \cup {""} : ModelsFailed(sel)
    \/ \E i \in 1..2 : SelectModel(i)
    \/ \E i \in 1..2 : QuickSelectModel(i)

NextChat(responses) ==
    \/ \E text \in Prompts \cup {""} : SetPrompt(text)
    \/ handleChatSubmit
    \/ \E resp \in responses : ChatFetchResolved(resp)
    \/ ChatFetchRejected
    \/ \E n \in 1..Len(chatRest) : ChatReadChunk(n)
    \/ ChatReadDone
    \/ ChatReadRejected
    \/ handleClearChat

NextPull(responses) ==
    \/ \E name \in PullNames : SetPullModelName(name)
    \/ handlePullModel
    \/ \E resp \in responses : PullFetchResolved(resp)
    \/ PullFetchRejected
    \/ \E n \in 1..Len(pullRest) : PullReadChunk(n)
    \/ PullReadDone
    \/ PullReadRejected
    \/ PullStatusTimeout

\* fetchModels() of a finished pull answers.
NextRefresh ==
    \/ \E sel \in ModelNames \cup {""} : ModelsResolved(sel)
    \/ \E sel \in ModelNames \cup {""} : ModelsFailed(sel)

\* Answers of one blank line, for the specifications that are not about
\* decoding.
BlankChatResponses == {[ok |-> TRUE, body |-> <<NL>>]}
BlankPullResponses == {[ok |-> TRUE, body |-> <<NL>>]}

\* A state the mounted application reaches: the catalog is loaded, a model
\* is selected, a telemetry sample is published, nothing is outstanding.
InitLoaded ==
    /\ systemStats = Sample(100, 800)
    /\ statsError = NoError
    /\ statsPending = [k \in BOOLEAN |-> 0]
    /\ serverModels = {"llama3:8b"}
    /\ models = ModelList(serverModels)
    /\ selectedModel = "llama3:8b"
    /\ selectedModelInfo = Descriptor("llama3:8b")
    /\ modelsPending = [m \in ModelNames \cup {""} |-> 0]
    /\ chatHistory = <<>>
    /\ prompt = ""
    /\ isStreaming = FALSE
    /\ pullModelName = "gemma:2b"
    /\ pullStatus = StatusEmpty
    /\ chatPc = "idle"
    /\ chatRest = <<>>
    /\ assistantContent = <<>>
    /\ pullPc = "idle"
    /\ pullRest = <<>>
    /\ pullTimers = 0
    /\ chatLog = ChatLogInit
    /\ pullLog = PullLogInit
    /\ savedChats = <<>>
    /\ storage = Stringify(savedChats)
    /\ savedLog = SavedLogInit
    /\ now = 1
    /\ deletePending = [d \in ModelNames \X (ModelNames \cup {""}) |-> 0]
    /\ statsServer = ServerIdle

\* The chat stream of the loaded application, over every answer and every
\* way of cutting it into chunks.
SpecChat == InitLoaded /\ [][NextChat(ChatResponses)]_vars

\* The pull stream of the loaded application, likewise.
SpecPull == InitLoaded /\ [][NextPull(PullResponses) \/ NextRefresh]_vars

\* Chat and pull submissions and completions of the loaded application.
SpecBusy ==
    InitLoaded /\ [][NextChat(BlankChatResponses) \/ NextPull(BlankPullResponses)
                     \/ NextRefresh]_vars

\* The application from its mount: telemetry, the model catalog, the
\* selection and chat submission.
SpecAdmission ==
    Init /\ [][NextStats \/ NextModels \/ NextChat(BlankChatResponses)]_vars

SavedIds == {ToString(n) : n \in 1..MaxSaves}

NextSaved ==
    \/ \E title \in Titles : handleSaveCurrentChat(title)
    \/ \E id \in SavedIds : handleLoadChat(id)
    \/ \E id \in SavedIds : handleDeleteSavedChat(id)

NextDelete ==
    \/ \E name \in ModelNames : handleDeleteModel(name)
    \/ \E name \in ModelNames, sel \in ModelNames \cup {""}, ok \in BOOLEAN :
          DeleteResolved(name, sel, ok)
    \/ \E name \in ModelNames, sel \in ModelNames \cup {""} : DeleteRejected(name, sel)

\* The delete buttons with either answer to the confirmation.
NextConfirm ==
    \/ \E id \in SavedIds, answer \in BOOLEAN : handleDeleteSavedChatAnswered(id, answer)
    \/ \E name \in ModelNames, answer \in BOOLEAN : handleDeleteModelAnswered(name, answer)
    \/ \E name \in ModelNames, sel \in ModelNames \cup {""} :
          DeleteResolved(name, sel, TRUE)

\* Model deletion with a model server that deletes the model it is asked to.
NextDeleted ==
    \/ \E name \in ModelNames : handleDeleteModel(name)
    \/ \E name \in ModelNames, sel \in ModelNames \cup {""} :
          DeleteResolved(name, sel, TRUE)

\* The /api/tags requests answered.
NextModelsResolved == \E sel \in ModelNames \cup {""} : ModelsResolved(sel)

\* The telemetry requests answer with one and the same sample.
NextStatsSteady == \E k \in BOOLEAN : StatsResolved(k, Sample(100, 800))

\* The answer of the chat that the states below have behind them.
AnsweredBody ==
    Body(<< <<"message.content", "Hel">>, <<"message.content", "lo">>, <<"done", "true">> >>)
AnsweredHistory == <<UserMessage("hi"), AssistantMessage(<<"Hel", "lo">>)>>

\* An answer of one record, for the specifications about the history.
SessionChatResponses == {[ok |-> TRUE, body |-> Body(<< <<"message.content", "Hel">> >>)]}

\* The chat of the loaded application with its saved chats: streaming,
\* saving, loading and deleting in every order.
SpecSessions == InitLoaded /\ [][NextChat(SessionChatResponses) \/ NextSaved]_vars

\* A state the loaded application reaches: one chat has been answered.
InitChatted ==
    /\ systemStats = Sample(100, 800)
    /\ statsError = NoError
    /\ statsPending = [k \in BOOLEAN |-> 0]
    /\ serverModels = {"llama3:8b"}
    /\ models = ModelList(serverModels)
    /\ selectedModel = "llama3:8b"
    /\ selectedModelInfo = Descriptor("llama3:8b")
    /\ modelsPending = [m \in ModelNames \cup {""} |-> 0]
    /\ deletePending = [d \in ModelNames \X (ModelNames \cup {""}) |-> 0]
    /\ chatHistory = AnsweredHistory
    /\ prompt = ""
    /\ isStreaming = FALSE
    /\ pullModelName = "gemma:2b"
    /\ pullStatus = StatusEmpty
    /\ chatPc = "idle"
    /\ chatRest = <<>>
    /\ assistantContent = <<"Hel", "lo">>
    /\ pullPc = "idle"
    /\ pullRest = <<>>
    /\ pullTimers = 0
    /\ chatLog = [ChatLogInit EXCEPT !.requests = 1, !.whole = AnsweredBody,
                                     !.decoded = ChatRecords(ChatChunkLines(AnsweredBody)),
                                     !.chunks = 1,
                                     !.emitted = << <<"Hel", "lo">> >>,
                                     !.outcome = "ended"]
    /\ pullLog = PullLogInit
    /\ savedChats = <<>>
    /\ storage = Stringify(savedChats)
    /\ savedLog = SavedLogInit
    /\ now = 1
    /\ statsServer = ServerIdle

\* The state after that chat has been saved.
InitSaved ==
    /\ systemStats = Sample(100, 800)
    /\ statsError = NoError
    /\ statsPending = [k \in BOOLEAN |-> 0]
    /\ serverModels = {"llama3:8b"}
    /\ models = ModelList(serverModels)
    /\ selectedModel = "llama3:8b"
    /\ selectedModelInfo = Descriptor("llama3:8b")
    /\ modelsPending = [m \in ModelNames \cup {""} |-> 0]
    /\ deletePending = [d \in ModelNames \X (ModelNames \cup {""}) |-> 0]
    /\ chatHistory = AnsweredHistory
    /\ prompt = ""
    /\ isStreaming = FALSE
    /\ pullModelName = "gemma:2b"
    /\ pullStatus = StatusEmpty
    /\ chatPc = "idle"
    /\ chatRest = <<>>
    /\ assistantContent = <<"Hel", "lo">>
    /\ pullPc = "idle"
    /\ pullRest = <<>>
    /\ pullTimers = 0
    /\ chatLog = [ChatLogInit EXCEPT !.requests = 1, !.whole = AnsweredBody,
                                     !.decoded = ChatRecords(ChatChunkLines(AnsweredBody)),
                                     !.chunks = 1,
                                     !.emitted = << <<"Hel", "lo">> >>,
                                     !.outcome = "ended"]
    /\ pullLog = PullLogInit
    /\ savedChats = <<[id |-> "1", title |-> "notes", history |-> AnsweredHistory,
                        model |-> "llama3:8b", created |-> 1]>>
    /\ storage = Stringify(savedChats)
    /\ savedLog = [SavedLogInit EXCEPT
                     !.taken = [id \in {"1"} |-> [history |-> AnsweredHistory,
                                                  model |-> "llama3:8b"]]]
    /\ now = 2
    /\ statsServer = ServerIdle

\* The saved chats of the application that has a chat to save, with the
\* catalog, model deletion, the Clear Chat button and page loads.
SpecCatalog ==
    InitChatted /\ [][NextStatsSteady \/ NextModelsResolved \/ NextDeleted \/ NextSaved
                        \/ handleClearChat \/ Restart]_vars

\* Model deletion of the loaded application with the model list, the
\* selection and chat submission, the server deleting or refusing.
SpecDelete ==
    InitLoaded /\ [][NextStatsSteady \/ NextModels \/ NextDelete
                       \/ NextChat(BlankChatResponses)]_vars

\* The destructive actions with their confirmations, from the saved chat.
SpecConfirm ==
    InitSaved /\ [][NextConfirm \/ NextStatsSteady \/ NextModelsResolved
                      \/ (\E title \in Titles : handleSaveCurrentChat(title))
                      \/ (\E id \in SavedIds : handleLoadChat(id))
                      \/ handleClearChat]_vars

\* Loading the saved chat while the catalog changes, with model selection,
\* chat submission and page loads.
SpecMissingModel ==
    InitSaved /\ [][NextStatsSteady \/ NextModelsResolved
                      \/ (\E i \in 1..2 : SelectModel(i))
                      \/ NextDeleted
                      \/ (\E id \in SavedIds : handleLoadChat(id))
                      \/ NextChat(BlankChatResponses) \/ Restart]_vars

NextServer ==
    \/ \E g \in Readings :
          get_system_stats([kind |-> "completed", stdout |-> TegrastatsLine(g)], g)
    \/ \E out \in BlankOutputs :
          get_system_stats([kind |-> "completed", stdout |-> out], NoReading)
    \/ \E f \in Failures : get_system_stats([kind |-> f, stdout |-> ""], NoReading)
    \/ StatsAnswerSent

\* The stats server answering requests, over what the command can do and
\* print.
SpecServer == Init /\ [][NextServer]_vars

\* ------------------------------------------------------------ properties

\* Every non-blank line of the body is a JSON object.
ValidNdjson(body) ==
    \A i \in 1..Len(Split(body)) :
        LET line == Trim(Split(body)[i])
        IN  line = <<>> \/ (line[1] = LB /\ IsJson(line))

\* The records of the lines of a body that are valid JSON, in order.
RECURSIVE ValidRecords(_)
ValidRecords(ls) ==
    IF ls = <<>> THEN <<>>
    ELSE (IF Trim(Head(ls)) # <<>> /\ IsJson(Head(ls))
          THEN <<JsonParse(Head(ls))>> ELSE <<>>) \o ValidRecords(Tail(ls))

\* The stream was delivered to its end: no fetch and no read was rejected.
ChatDelivered == chatLog.outcome = "ended"
PullDelivered == pullLog.outcome \in {"ended", "threw"}

\* C1: for a valid NDJSON body, however it is cut into chunks, the chat and
\* the pull loop decode the records they decode from the body as one chunk.
C1_ChunkBoundaryInvariance ==
    /\ (ChatDelivered /\ ValidNdjson(chatLog.whole))
          => chatLog.decoded = ChatRecords(ChatChunkLines(chatLog.whole))
    /\ (PullDelivered /\ ValidNdjson(pullLog.whole))
          => pullLog.decoded
                = PullRun(PullChunkLines(pullLog.whole), StatusEmpty, <<>>).records

\* C2: a line that is not valid JSON is dropped and the stream goes on: with
\* every chunk made of whole lines, all records of the valid lines are
\* decoded in order and the operation does not end in its error outcome.
C2_MalformedLineDropped ==
    /\ (ChatDelivered /\ chatLog.aligned)
          => chatLog.decoded = ValidRecords(Split(chatLog.whole))
    /\ (PullDelivered /\ pullLog.aligned)
          => /\ pullLog.outcome = "ended"
             /\ pullStatus # StatusError
             /\ pullLog.decoded = ValidRecords(Split(pullLog.whole))

UserMessages(history) == SelectSeq(history, LAMBDA m : m.role = "user")

\* C3: at most one chat stream and at most one pull stream is in flight;
\* while a chat request is in flight no /api/chat request is sent and no
\* user message is added, and while a pull is in flight no /api/pull
\* request is sent.
C3_OneStreamAtATime ==
    /\ [](chatLog.inflight <= 1 /\ pullLog.inflight <= 1)
    /\ [][chatPc # "idle" => /\ chatLog'.requests = chatLog.requests
                             /\ UserMessages(chatHistory') = UserMessages(chatHistory)]_vars
    /\ [][pullPc # "idle" => pullLog'.requests = pullLog.requests]_vars

\* A pull has ended, the pull form is filled in, and a chat stream is being
\* read: the pull form cannot be submitted.
C3_Witness ==
    /\ chatPc = "read"
    /\ pullLog.outcome = "ended"
    /\ pullModelName # ""
    /\ chatLog.inflight = 1

\* C4: a step that sends an /api/chat request starts in a state whose
\* admission decision is true: with a published sample that has the RAM
\* fields, free RAM exceeds 1.5 times the selected model's size.
C4_NoChatWithoutMemory ==
    [][chatLog'.requests > chatLog.requests
         => /\ hasSufficientMemory
            /\ (systemStats.published /\ systemStats.ram)
                  => 10 * (systemStats.ram_total_gb - systemStats.ram_used_gb)
                        > 15 * selectedModelInfo.size]_vars

\* A prompt is typed and a model selected, nothing streams, and the latest
\* sample leaves too little free RAM: submission is blocked.
C4_Witness ==
    /\ prompt # ""
    /\ selectedModel # ""
    /\ selectedModelInfo # NoModelInfo
    /\ ~isStreaming
    /\ systemStats.published
    /\ ~hasSufficientMemory

\* C5: at most one /api/system-stats request is outstanding at any time.
C5_OneTelemetryRequest == TotalStats(statsPending) <= 1

\* C6: the admission decision is true while no sample is published; with a
\* sample that has the RAM fields and a selected model it is true exactly
\* when total - used > 1.5 * size / 1e9 (strictly): total 8, used 2 denies
\* 4e9 bytes and admits 3.9e9 bytes.
C6_AdmissionDecision ==
    /\ ~systemStats.published => hasSufficientMemory
    /\ (systemStats.published /\ systemStats.ram /\ selectedModelInfo # NoModelInfo)
          => (hasSufficientMemory
                <=> 10 * (systemStats.ram_total_gb - systemStats.ram_used_gb)
                      > 15 * selectedModelInfo.size)
    /\ (systemStats = Sample(200, 800) /\ selectedModelInfo.size = 400)
          => ~hasSufficientMemory
    /\ (systemStats = Sample(200, 800) /\ selectedModelInfo.size = 390)
          => hasSufficientMemory

\* Total 8 GB, used 2 GB and a model of 4e9 bytes: free RAM equals 1.5
\* times the size, and the decision is to deny.
C6_Witness ==
    /\ systemStats = Sample(200, 800)
    /\ selectedModelInfo = Descriptor("llama3:8b")
    /\ ~hasSufficientMemory

\* The step is the catch block of a chat whose stream had added content.
ChatFailsAfterContent ==
    /\ chatLog.outcome = "running"
    /\ chatLog'.outcome = "failed"
    /\ assistantContent # <<>>

\* C7 as claimed: when a chat stream fails after content was streamed, the
\* history ends with the one assistant message reporting the failure and
\* the partial content is in no message of the history.
C7_PartialContentDiscarded ==
    [][ChatFailsAfterContent
         => /\ chatHistory'[Len(chatHistory')] = ChatErrorMessage
            /\ \A i \in 1..Len(chatHistory') :
                  chatHistory'[i].content # assistantContent]_vars

\* C7 as amended: the failure adds exactly one assistant message reporting
\* it at the end of the history and changes no message before it, so the
\* message holding the partial content stays.
C7_ErrorAppendedAfterPartial ==
    [][ChatFailsAfterContent => chatHistory' = Append(chatHistory, ChatErrorMessage)]_vars

\* A chat failed after "Hel" was streamed: the partial message, then the
\* error message.
C7_Witness ==
    /\ chatLog.outcome = "failed"
    /\ Len(chatHistory) = 3
    /\ chatHistory[2] = AssistantMessage(<<"Hel">>)
    /\ chatHistory[3] = ChatErrorMessage

\* C8: an answer with a non-2xx status ends the chat in its error message
\* and the pull in its error status: never the normal end of the chat task,
\* never the success status.
C8_Non2xxIsFailure ==
    /\ ~chatLog.ok => chatLog.outcome # "ended"
    /\ ~pullLog.ok => (pullLog.outcome # "ended" /\ pullStatus # StatusSuccess)

\* The request or the stream of the pull failed.
PullFailed(log) == log.outcome = "failed" \/ ~log.ok

\* C9: the step that ends a pull sets the success status exactly when the
\* stream was read to its end without failure and the error status exactly
\* when the request or the stream failed; afterwards the status of that
\* pull changes only by being cleared.
C9_TerminalStatusMatchesOutcome ==
    /\ [][(pullLog.outcome = "running" /\ pullLog'.outcome # "running")
            => /\ pullStatus' \in {StatusSuccess, StatusError}
               /\ pullStatus' = StatusSuccess <=> ~PullFailed(pullLog')
               /\ pullStatus' = StatusError <=> PullFailed(pullLog')]_vars
    /\ [][(pullLog.outcome \notin {"none", "running"} /\ pullLog'.requests = pullLog.requests)
            => pullStatus' \in {pullStatus, StatusEmpty}]_vars

\* round(100 * completed / total), halves up.
Rounded(completed, total) ==
    CHOOSE p \in 0..100 :
        2 * total * p <= 200 * completed + total /\ 200 * completed + total < 2 * total * (p + 1)

\* C10: after a chunk whose last record has both total and completed
\* (total > 0, completed >= 0) the status is the percentage string of
\* round(100 * completed / total).
C10_PercentOfProgressRecord ==
    [][(/\ pullLog'.outcome = "running"
        /\ Len(pullLog'.decoded) > Len(pullLog.decoded)
        /\ pullLog'.decoded[Len(pullLog'.decoded)]["total"] \in Digits \ {"0"}
        /\ pullLog'.decoded[Len(pullLog'.decoded)]["completed"] \in Digits)
         => LET r == pullLog'.decoded[Len(pullLog'.decoded)]
            IN  pullStatus' = StatusPercent(Rounded(NumVal(r["completed"]),
                                                    NumVal(r["total"])))]_vars

\* The entries of a core list that hold a percentage.
Percentages(cores) == SelectSeq(cores, LAMBDA p : p # Off)

RECURSIVE Total(_)
Total(ps) == IF ps = <<>> THEN 0 ELSE Head(ps) + Total(Tail(ps))

\* The command completed and its line holds no RAM, CPU, GPU or temperature
\* reading.
NothingMeasured ==
    /\ statsServer.cmd.kind = "completed"
    /\ statsServer.given.ram.mb = <<>>
    /\ ~statsServer.given.cpu.listed
    /\ statsServer.given.gpu.pct = <<>>
    /\ statsServer.given.temp.temp = <<>>

\* C13: when the command succeeds and its line matches none of the four
\* patterns the answer is the parse-failure error with a non-2xx status, and
\* no 2xx answer carries a sample without fields.
C13_NoEmptySample ==
    /\ NothingMeasured
          => (statsServer.response.code = 500 /\ statsServer.response.error = ErrorParse)
    /\ statsServer.response.code = 200 => DOMAIN statsServer.response.sample # {}

\* The command printed a line with memory counters of swap only, and the
\* answer is the parse failure.
C13_Witness ==
    /\ NothingMeasured
    /\ Strip(statsServer.cmd.stdout) # ""
    /\ statsServer.response = ErrorResponse(ErrorParse)

\* C14: a failed cycle is answered with one of three distinct errors: the
\* command not found with 'tool unavailable'; a non-zero exit or an empty
\* output with 'sampling failed'; an output from which no field is parsed
\* with 'unparseable output'.
C14_ThreeErrorCategories ==
    /\ Cardinality({ErrorNotFound, ErrorRunning, ErrorParse}) = 3
    /\ statsServer.response.code = 500
          => statsServer.response.error \in {ErrorNotFound, ErrorRunning, ErrorParse}
    /\ statsServer.cmd.kind = "FileNotFoundError"
          => statsServer.response.error = ErrorNotFound
    /\ (\/ statsServer.cmd.kind = "CalledProcessError"
        \/ (statsServer.cmd.kind = "completed" /\ Strip(statsServer.cmd.stdout) = ""))
          => statsServer.response.error = ErrorRunning
    /\ (NothingMeasured /\ Strip(statsServer.cmd.stdout) # "")
          => statsServer.response.error = ErrorParse

\* C15: the step in which a successful fetchStats call publishes its sample
\* leaves the telemetry error cleared, whatever other calls overlapped it.
C15_SuccessClearsError ==
    [][systemStats' # systemStats => statsError' = NoError]_vars

\* C16: the four RAM fields are set together or not at all; they are set
\* when the line holds 'RAM used/totalMB', the megabyte fields to the two
\* numbers and the gigabyte fields to a hundredth nearest to the number
\* divided by 1024; 'RAM 1683/7762MB' gives 1.64 and 7.58.
C16_RamFields ==
    LET sample == statsServer.response.sample
        mb == statsServer.given.ram.mb
        Nearest(gb, n) == 100 * n - 1024 * gb \in -512..512
    IN  /\ RamKeys \cap DOMAIN sample \in {{}, RamKeys}
        /\ mb = <<>> => RamKeys \cap DOMAIN sample = {}
        /\ mb # <<>> =>
              /\ RamKeys \subseteq DOMAIN sample
              /\ sample["ram_used_mb"] = mb[1]
              /\ sample["ram_total_mb"] = mb[2]
              /\ Nearest(sample["ram_used_gb"], mb[1])
              /\ Nearest(sample["ram_total_gb"], mb[2])
        /\ mb = <<1683, 7762>> =>
              (sample["ram_used_gb"] = 164 /\ sample["ram_total_gb"] = 758)

\* The line held 'RAM 1683/7762MB' and the sample has 1.64 and 7.58.
C16_Witness ==
    /\ statsServer.given.ram.mb = <<1683, 7762>>
    /\ statsServer.response.code = 200
    /\ statsServer.response.sample["ram_used_gb"] = 164
    /\ statsServer.response.sample["ram_total_gb"] = 758

\* C17: cpu_usage_percent is a hundredth nearest to the average of the
\* percentages of the cores the list holds, whatever their number, and is
\* left out when there is no list or the list holds no percentage;
\* 'CPU [11%@1113,8%@1113,9%@1113]' gives 9.33.
C17_CpuAverage ==
    LET sample == statsServer.response.sample
        ps == Percentages(statsServer.given.cpu.cores)
        n == Len(ps)
    IN  /\ n = 0 => "cpu_usage_percent" \notin DOMAIN sample
        /\ n > 0 =>
              /\ "cpu_usage_percent" \in DOMAIN sample
              /\ 2 * (100 * Total(ps) - n * sample["cpu_usage_percent"]) \in -n..n
        /\ ps = <<11, 8, 9>> => sample["cpu_usage_percent"] = 933

\* The line listed three cores at 11, 8 and 9 percent and the sample has 9.33.
C17_Witness ==
    /\ statsServer.given.cpu.cores = <<11, 8, 9>>
    /\ statsServer.response.code = 200
    /\ statsServer.response.sample["cpu_usage_percent"] = 933

\* The non-empty message.content fragments of decoded records, in order.
RECURSIVE Fragments(_)
Fragments(records) ==
    IF records = <<>> THEN <<>>
    ELSE (IF Truthy(Head(records)["message.content"])
          THEN <<Head(records)["message.content"]>> ELSE <<>>)
            \o Fragments(Tail(records))

\* The step is a turn of the chat loop that decoded a fragment, so that its
\* update was committed.
ChatUpdateCommitted ==
    /\ chatPc = "read"
    /\ chatRest' # chatRest
    /\ Fragments(chatLog'.decoded) # Fragments(chatLog.decoded)

\* The step is the normal end of the chat stream.
ChatStreamEnds ==
    /\ chatLog.outcome = "running"
    /\ chatLog'.outcome = "ended"

\* C11: after every committed streaming update and at the normal end of the
\* stream, the history ends with an assistant message whose content is the
\* fragments of all records decoded so far, in arrival order and unchanged.
C11_TrailingIsConcatenation ==
    [][(ChatUpdateCommitted \/ ChatStreamEnds)
         => /\ chatHistory' # <<>>
            /\ chatHistory'[Len(chatHistory')]
                  = AssistantMessage(Fragments(chatLog'.decoded))]_vars

\* C12: a chat stream has at most as many updates of the assistant message
\* as chunks were received from the reader, however many records a chunk
\* holds, and after the normal end of the stream the task makes no update:
\* until the next submission the history changes only by being cleared.
C12_OneUpdatePerChunk ==
    /\ [](Len(chatLog.emitted) <= chatLog.chunks)
    /\ [][(chatLog.outcome = "ended" /\ chatLog'.requests = chatLog.requests)
            => /\ chatLog'.emitted = chatLog.emitted
               /\ chatHistory' \in {chatHistory, <<>>}]_vars

\* A stream ended after one chunk that held two records with a fragment:
\* one update, with both fragments.
C12_Witness ==
    /\ chatLog.outcome = "ended"
    /\ chatLog.chunks = 1
    /\ Len(Fragments(chatLog.decoded)) = 2
    /\ chatLog.emitted = << <<"Hel", "lo">> >>
    /\ chatHistory[Len(chatHistory)] = AssistantMessage(<<"Hel", "lo">>)

\* The messages as JavaScript holds them: every content one string.
Shown(history) ==
    [i \in 1..Len(history) |->
        [role |-> history[i].role, content |-> Concat(history[i].content)]]

\* The saved chat is the messages and the model name of the moment it was
\* saved.
AsSaved(entry) ==
    /\ entry.id \in DOMAIN savedLog.taken
    /\ Shown(entry.history) = Shown(savedLog.taken[entry.id].history)
    /\ entry.model = savedLog.taken[entry.id].model

\* C18 as claimed: loading a saved chat makes the messages that were current
\* when it was saved the chat history and the model name that was current
\* then the selected model.
C18_LoadReproducesSelection ==
    [][\A id \in SavedIds :
          handleLoadChat(id)
            => /\ Shown(chatHistory') = Shown(savedLog.taken[id].history)
               /\ selectedModel' = savedLog.taken[id].model]_vars

\* C18 as amended: every saved chat, in the list and as read back from the
\* stored item, holds the messages and the model name that were current
\* when it was saved, and loading it makes those messages the chat history
\* and that model name, if a model was selected then, the selected model; a
\* chat saved with no model selected leaves the selection as it is.
C18_SaveLoadRoundTrip ==
    /\ [](/\ \A i \in 1..Len(savedChats) : AsSaved(savedChats[i])
          /\ LET stored == LoadSavedChats(storage)
             IN  /\ Len(stored) = Len(savedChats)
                 /\ \A i \in 1..Len(stored) :
                       stored[i].id = savedChats[i].id /\ AsSaved(stored[i]))
    /\ [][\A id \in SavedIds :
            handleLoadChat(id)
              => LET saved == savedLog.taken[id]
                 IN  /\ Shown(chatHistory') = Shown(saved.history)
                     /\ saved.model # "" => selectedModel' = saved.model
                     /\ saved.model = "" => selectedModel' = selectedModel]_vars

\* A chat saved with llama3:8b selected was read back from the stored item
\* at a page load and then loaded: its messages are the history, each
\* content the one string that was stored, and its model is selected.
C18_Witness ==
    /\ chatHistory = <<UserMessage("hi"), AssistantMessage(<<"Hello">>)>>
    /\ selectedModel = "llama3:8b"
    /\ \E i \in 1..Len(savedChats) :
          /\ savedChats[i].history = chatHistory
          /\ savedChats[i].model = "llama3:8b"
          /\ savedLog.taken[savedChats[i].id].history = AnsweredHistory

\* The new history is the old one with messages added at its end.
IsAppend(old, new) ==
    /\ Len(new) >= Len(old)
    /\ SubSeq(new, 1, Len(old)) = old

\* While a stream is active, the new history is the old one with another
\* content in its trailing message, an assistant message.
IsStreamingUpdate(old, new) ==
    /\ isStreaming
    /\ old # <<>>
    /\ Len(new) = Len(old)
    /\ SubSeq(new, 1, Len(old) - 1) = SubSeq(old, 1, Len(old) - 1)
    /\ old[Len(old)].role = "assistant"
    /\ new[Len(new)].role = "assistant"

\* The new history is another chat: the empty one of Clear Chat or a saved
\* one.
IsOtherChat(new) ==
    \/ new = <<>>
    \/ \E i \in 1..Len(savedChats) : savedChats[i].history = new

\* C19: every step leaves the messages of the chat as they are, adds
\* messages at the end or, while a stream is active, replaces the content of
\* the trailing assistant message; no other message is removed, reordered
\* or modified.  Clear Chat and loading a saved chat put another chat in
\* the place of the current one and are not held against the claim.
C19_AppendOnly ==
    [][\/ IsAppend(chatHistory, chatHistory')
       \/ IsStreamingUpdate(chatHistory, chatHistory')
       \/ IsOtherChat(chatHistory')]_vars

\* The model named is in the catalog the application holds.
InCatalog(name) == \E i \in 1..Len(models) : models[i].name = name

\* C20: loading a saved chat whose model is not in the catalog restores its
\* messages, selects the name with no descriptor and sends no request; an
\* /api/chat request is sent only for a selected model that has its
\* descriptor, and a selection without descriptor gets one only by the
\* selection of a model of the catalog.
C20_MissingModelTolerated ==
    /\ [][\A id \in SavedIds :
            (/\ handleLoadChat(id)
             /\ savedLog.taken[id].model # ""
             /\ ~InCatalog(savedLog.taken[id].model))
              => /\ Shown(chatHistory') = Shown(savedLog.taken[id].history)
                 /\ selectedModel' = savedLog.taken[id].model
                 /\ selectedModelInfo' = NoModelInfo
                 /\ chatLog'.requests = chatLog.requests]_vars
    /\ [][chatLog'.requests > chatLog.requests
            => /\ selectedModelInfo # NoModelInfo
               /\ selectedModelInfo.name = selectedModel]_vars
    /\ [][(selectedModelInfo = NoModelInfo /\ selectedModelInfo' # NoModelInfo)
            => /\ \E i \in 1..Len(models') : models'[i] = selectedModelInfo'
               /\ selectedModel' = selectedModelInfo'.name]_vars

\* The saved chat was loaded after its model was deleted: the messages are
\* back, llama3:8b is selected without a descriptor, and a prompt is typed
\* in: the button is enabled and the handler returns early.
C20_Witness ==
    /\ "llama3:8b" \notin serverModels
    /\ ~InCatalog("llama3:8b")
    /\ selectedModel = "llama3:8b"
    /\ selectedModelInfo = NoModelInfo
    /\ chatHistory # <<>>
    /\ prompt # ""
    /\ ChatButtonEnabled
    /\ ChatSubmitReturns

\* C21: a step in which the operator declines a confirmation changes
\* nothing: no delete request is outstanding that was not before, and the
\* model list, the selection, the saved chats and their stored item, and
\* everything else the application holds are as they were.
C21_DeclinedChangesNothing ==
    [][savedLog'.declined # savedLog.declined
         => /\ deletePending' = deletePending
            /\ serverModels' = serverModels
            /\ <<models, selectedModel, selectedModelInfo>>'
                  = <<models, selectedModel, selectedModelInfo>>
            /\ <<savedChats, storage, now>>' = <<savedChats, storage, now>>
            /\ savedLog'.taken = savedLog.taken
            /\ <<statsVars, modelsPending, chatVars, pullVars, isStreaming>>'
                  = <<statsVars, modelsPending, chatVars, pullVars, isStreaming>>]_vars

\* A confirmation was declined with a model in the list and a chat saved:
\* both are still there and no delete request is outstanding.
C21_Witness ==
    /\ savedLog.declined
    /\ Len(savedChats) = 1
    /\ InCatalog("llama3:8b")
    /\ "llama3:8b" \in serverModels
    /\ TotalDeletes(deletePending) = 0

\* Every chat of the list was saved after the chats behind it.
NewestFirst(chats) ==
    \A i \in 1..Len(chats) : \A j \in 1..Len(chats) :
        i < j => chats[i].created > chats[j].created

\* The list is the other with one of its elements taken out.
IsWithoutOne(new, old) ==
    \E k \in 1..Len(old) :
        new = SubSeq(old, 1, k - 1) \o SubSeq(old, k + 1, Len(old))

\* C22: the saved chats, in the list and in the stored item, are ordered
\* newest first after any saves, deletions and page loads: a save puts the
\* new chat in front of the others, and a deletion takes one chat out and
\* leaves the others in their order.
C22_NewestFirst ==
    /\ [](NewestFirst(savedChats) /\ NewestFirst(LoadSavedChats(storage)))
    /\ [][Len(savedChats') > Len(savedChats)
            => /\ Tail(savedChats') = savedChats
               /\ savedChats'[1].created = now]_vars
    /\ [][Len(savedChats') < Len(savedChats)
            => IsWithoutOne(savedChats', savedChats)]_vars

\* Two chats are saved, and the one saved second is the first of the list.
C22_Witness ==
    /\ Len(savedChats) = 2
    /\ savedChats[1].created = 2
    /\ savedChats[2].created = 1

\* The step ends a chat task or a pull task: its stream is over, by the
\* normal end or by a failure.
TaskEnds ==
    \/ chatLog.outcome = "running" /\ chatLog'.outcome # "running"
    \/ pullLog.outcome = "running" /\ pullLog'.outcome # "running"

\* C23: the application is busy exactly while a chat or pull task is
\* running, and the step that ends a task's stream, by its normal end or by
\* a failure, leaves isStreaming false with the pull button enabled and no
\* task standing in the way of a later submission.
C23_BusyReleased ==
    /\ [](isStreaming <=> chatLog.inflight + pullLog.inflight > 0)
    /\ [][TaskEnds => /\ ~isStreaming'
                      /\ PullButtonEnabled'
                      /\ chatPc' = "idle" /\ pullPc' = "idle"]_vars

\* A chat failed in transport and a pull submitted after it is running.
C23_Witness ==
    /\ chatLog.outcome = "failed"
    /\ pullLog.outcome = "running"
    /\ pullLog.inflight = 1
    /\ isStreaming

\* The step is a status timer firing.  Timers are set when a pull ends, so
\* while a pull is running every pending timer is an earlier pull's.
TimerFires == pullTimers' < pullTimers

\* C24: the timer that a finished pull set for the clearing of its status
\* does not change the status while a later pull is running.
C24_TimerSparesLaterPull ==
    [][(TimerFires /\ pullLog.outcome = "running") => pullStatus' = pullStatus]_vars

\* The models a step's answered delete request removed from the server.
DeletedBy == serverModels \ serverModels'

\* C25: when a delete request for a model is answered and the server has
\* deleted it, the model is not the selected model after the step (so that
\* no /api/chat request can name it).
C25_DeletedModelNotSelected ==
    [][(TotalDeletes(deletePending') < TotalDeletes(deletePending))
        => \A name \in DeletedBy : selectedModel' # name]_vars

\* The positions of the history whose message a step changed.
Overwritten ==
    {i \in 1..Len(chatHistory) :
        i > Len(chatHistory') \/ chatHistory'[i] # chatHistory[i]}

\* C26: a committed streaming update keeps the length of the history and
\* changes no message but the assistant message of its own stream, which
\* holds the fragments the stream had decoded before the step; it writes
\* into no user message and into no message of a chat loaded meanwhile.
C26_UpdateWritesOwnMessage ==
    [][ChatUpdateCommitted
         => /\ Len(chatHistory') = Len(chatHistory)
            /\ \A i \in Overwritten :
                   /\ chatHistory[i].role = "assistant"
                   /\ chatHistory[i] = AssistantMessage(Fragments(chatLog.decoded))]_vars

====
